---- MODULE Spec2Model ----
(***************************************************************************)
(* The Crucible: the client turn session (useChatWebSocket), the history   *)
(* tree hook (useHistoryTree) and the Home handlers that drive them, run   *)
(* against the streaming server.  The server (backend/main.py and the      *)
(* checkpoint store) is not part of the sources at hand: its actions are   *)
(* modelled from the specification's sections 4.1-4.3.                     *)
(***************************************************************************)
EXTENDS Integers, Sequences, FiniteSets, TLC

\* ---------------------------------------------------------------- bounds
MaxFetches == 1    \* fetchHistory requests in flight at once
MaxModels == 3     \* models selected for one turn
MaxTokens == 3     \* stream_token events in one behaviour
MaxErrors == 2     \* error events in one behaviour
MaxPushes == 2     \* chat_update / title_update pushes in one behaviour
MaxCalls == 1      \* delete requests in flight at once

\* What the environment (the user, the network, the models) does in one
\* behaviour: a behaviour runs one of these scenarios.
\*   fanout    the number of models of each turn the user starts, in order
\*   tokens    stream_token events              errors    error events
\*   pushes    chat_update / title_update       rejects   refused requests
\*   stops     clicks of the stop button        clicks    clicks of a tree node
\*   drops     connections or history requests lost
\*   switches  clicks of a thread in the sidebar
\*   refused   sends or syntheses attempted while loading or with nothing to send
\*   quotes    replies that quote the synthesis prompt
\*   deletes   clicks of a tree node's delete button
\*   delibs    whether the user sends with the deliberate button
\*   edits     clicks of the edit button of the checkpoint in view
\*   removals  clicks of a thread's delete button in the sidebar
\*   uploads   documents attached
\*   overlap   history requests that may be in flight besides the first
Quiet ==
  [fanout |-> <<>>, tokens |-> 0, errors |-> 0, pushes |-> 0, rejects |-> 0,
   stops |-> 0, clicks |-> 0, drops |-> 0, switches |-> 1, refused |-> 0,
   quotes |-> 0, deletes |-> 0, delibs |-> 0, edits |-> 0, removals |-> 0,
   uploads |-> 0, overlap |-> 0]
Streaming == [Quiet EXCEPT !.fanout = <<2>>, !.tokens = MaxTokens]
Repeat ==
  [Quiet EXCEPT !.fanout = <<1, 1>>, !.tokens = 1, !.errors = 1, !.pushes = 1,
                !.stops = 1, !.refused = 1]
Cancellation ==
  [Quiet EXCEPT !.fanout = <<2, 1>>, !.tokens = 1, !.errors = 1, !.stops = 1,
                !.refused = 1]
Restart ==
  [Quiet EXCEPT !.fanout = <<1, 2>>, !.tokens = 1, !.errors = 1, !.stops = 1]
Failure ==
  [Quiet EXCEPT !.fanout = <<2, MaxModels>>, !.errors = MaxErrors, !.stops = 1]
Pushes ==
  [Quiet EXCEPT !.fanout = <<2>>, !.tokens = 1, !.errors = 1, !.pushes = MaxPushes]
Arena == [Quiet EXCEPT !.fanout = <<1, 2, 1>>, !.clicks = 1, !.refused = 1]
Offline == [Quiet EXCEPT !.fanout = <<1, 2>>, !.rejects = 1, !.drops = 1]
Quoting == [Quiet EXCEPT !.fanout = <<1, 2>>, !.tokens = 1, !.quotes = 1]
Deletion == [Quiet EXCEPT !.fanout = <<1, 2>>, !.deletes = 2, !.drops = 1]
Deliberation ==
  [Quiet EXCEPT !.fanout = <<1, 1, 2>>, !.tokens = 1, !.errors = 1,
                !.delibs = 1]
Rebranch == [Quiet EXCEPT !.fanout = <<1, 1, 1>>, !.edits = 1]
ThreadRemoval ==
  [Quiet EXCEPT !.fanout = <<1>>, !.switches = 2, !.drops = 1, !.removals = 2,
                !.uploads = 1]
Overlap == [Quiet EXCEPT !.fanout = <<1, 1>>, !.clicks = 2, !.overlap = 1]
Scenarios ==
  {Streaming, Repeat, Cancellation, Restart, Failure, Pushes, Arena, Offline,
   Quoting, Deletion, Deliberation, Rebranch, ThreadRemoval, Overlap}

\* ------------------------------------------------------------- constants
ModelOrder == [i \in 1..MaxModels |-> <<"m1", "m2", "m3", "m4">>[i]]
Models == {ModelOrder[i] : i \in DOMAIN ModelOrder}
SynthModel == "gemini-3-flash-preview"
AllModels == Models \cup {SynthModel}
Threads == {"t1"}
\* the threads the sidebar lists
Library == Threads \cup {"t2"}
Docs == {"notes.txt"}
NoThread == "null"
NoModel == "undefined"
NoCp == 0
NoEdit == -1
TokenText == <<"a", "b", "c", "d", "e", "f">>
UserText == <<"hi">>
Inputs == {"", "hi"}
LeadPhrase == "Please act as the Crucible Lead. Synthesize these viewpoints"

VARIABLES
  \* useThreads: the current thread and the id kept in localStorage
  threadId, storedThreadId,
  \* useChatWebSocket
  messages, isLoading, wsState, streamBuffer, rafPending, pendingModels,
  streamCheckpoints, expected, finished,
  \* useHistoryTree
  nodes, edges, activeCheckpoint,
  \* Home
  selectedModels, errorModals, confirmDialog, documents,
  \* the network and the server
  fetches, tasks, stops, store, nextCp,
  \* the calls of the REST interface, other than history, that are in flight
  calls,
  \* the number of the turn last started, and what the environment may still
  \* do in this behaviour
  turn, left,
  \* history variables: the session of the turn the client last started, and
  \* what the last step did
  turnLive, turnN,
  \* history: the parent under which the text taken up by the last click of
  \* the edit button is to be sent again, NoEdit when none is pending
  rebranch,
  lastOp

threadVars == <<threadId, storedThreadId>>
hookVars == <<messages, isLoading, wsState, streamBuffer, rafPending,
              pendingModels, streamCheckpoints, expected, finished>>
treeVars == <<nodes, edges, activeCheckpoint>>
homeVars == <<selectedModels, errorModals, confirmDialog, documents>>
srvVars == <<tasks, stops, store, nextCp, calls>>
boundVars == <<turn, left>>
sessVars == <<turnLive, turnN, rebranch>>
vars == <<threadVars, hookVars, treeVars, homeVars, fetches, srvVars,
          boundVars, sessVars, lastOp>>

\* ---------------------------------------------------------------- helpers
Range(s) == {s[i] : i \in DOMAIN s}

\* Array.prototype.map over the message list
MapSeq(s, F(_)) == [i \in DOMAIN s |-> F(s[i])]

\* delete obj[key]
Without(f, k) == [x \in (DOMAIN f) \ {k} |-> f[x]]
\* obj[key] = v
With(f, k, v) == [x \in (DOMAIN f) \cup {k} |-> IF x = k THEN v ELSE f[x]]

\* the first n tokens a model generates
Tokens(n) == [i \in 1..n |-> TokenText[i]]

\* the tokens task t has generated: a reply that quotes the synthesis prompt
\* repeats its key phrase
Generated(t) ==
  [i \in 1..t.ntok |-> IF t.quote THEN LeadPhrase ELSE TokenText[i]]

\* the environment does one more thing of the given kind
Spend(kind) ==
  /\ left[kind] > 0
  /\ left' = [left EXCEPT ![kind] = @ - 1]

UserMsg(text) ==
  [role |-> "user", content |-> text, model |-> NoModel, streaming |-> FALSE]
StreamingMsg(m) ==
  [role |-> "assistant", content |-> <<>>, model |-> m, streaming |-> TRUE]


\* ------------------------------------------------------- checkpoint store
Cp(id) == CHOOSE c \in store : c.id = id
\* a variant of the parent check that accepts every id
AnyParent(tid, id) == TRUE
CpIds(tid) == {c.id : c \in {d \in store : d.tid = tid}}
Exists(tid, id) == id \in CpIds(tid)

Max(S) == CHOOSE x \in S : \A y \in S : y <= x
\* the checkpoint a thread's history is served at when the request names none
Latest(tid) == IF CpIds(tid) = {} THEN NoCp ELSE Max(CpIds(tid))

RECURSIVE GetPath(_)
GetPath(id) ==
  IF id = NoCp \/ ~(\E c \in store : c.id = id) THEN <<>>
  ELSE GetPath(Cp(id).parent) \o
       <<[role |-> "assistant", content |-> Cp(id).content,
          model |-> Cp(id).model, streaming |-> FALSE]>>

\* a variant that leaves the checkpoints below in place
OnlyItself(id) == {id}

\* the checkpoint and every checkpoint below it
RECURSIVE Subtree(_)
Subtree(id) ==
  {id} \cup UNION {Subtree(c.id) : c \in {d \in store : d.parent = id}}

\* DeleteCheckpoint(thread, id), the checkpoint being there
DeleteCheckpoint(tid, id) ==
  store' = {c \in store : ~(c.tid = tid /\ c.id \in Subtree(id))}

\* the text the tree shows for a reply: the start of its content
Excerpt(content) == IF content = <<>> THEN "" ELSE content[1]

\* a node carries the label the tree shows for it and the model that wrote it
GetSubtreeNodes(tid) ==
  {[id |-> c.id,
    label |-> IF c.role = "synthesis" THEN "Consensus Convergence"
              ELSE Excerpt(c.content),
    peer |-> c.model] : c \in {d \in store : d.tid = tid}}
GetSubtreeEdges(tid) ==
  {[source |-> c.parent, target |-> c.id] :
     c \in {d \in store : d.tid = tid /\ d.parent # NoCp}}

\* the response to GET /history/{tid}[?checkpoint_id=cp]
HistoryResponse(tid, cp) ==
  LET cur == IF cp # NoCp THEN cp ELSE Latest(tid)
  IN [nodes |-> GetSubtreeNodes(tid), edges |-> GetSubtreeEdges(tid),
      messages |-> GetPath(cur), current_checkpoint |-> cur]

\* ------------------------------------------------------------------- Init
Init ==
  /\ threadId = NoThread
  /\ storedThreadId = NoThread
  /\ messages = <<>>
  /\ isLoading = FALSE
  /\ wsState = "none"
  /\ streamBuffer = <<>>
  /\ rafPending = FALSE
  /\ pendingModels = {}
  /\ streamCheckpoints = <<>>
  /\ expected = 0
  /\ finished = 0
  /\ nodes = {}
  /\ edges = {}
  /\ activeCheckpoint = NoCp
  /\ selectedModels = <<"m1">>
  /\ errorModals = 0
  /\ confirmDialog = FALSE
  /\ documents = {}
  /\ fetches = <<>>
  /\ tasks = {}
  /\ stops = {}
  /\ store = {}
  /\ nextCp = 1
  /\ calls = <<>>
  /\ turn = 0
  /\ left \in Scenarios
  /\ turnLive = FALSE
  /\ turnN = 0
  /\ rebranch = NoEdit
  /\ lastOp = ""

\* ----------------------------------------------------------- useHistoryTree
CanFetch == Len(fetches) < MaxFetches + left.overlap

\* fetchHistory up to its await: the tree is cleared when no checkpoint is named
FetchHistory(tid, cp, skip) ==
  /\ nodes' = IF cp = NoCp THEN {} ELSE nodes
  /\ edges' = IF cp = NoCp THEN {} ELSE edges
  /\ fetches' = Append(fetches, [tid |-> tid, cp |-> cp, skip |-> skip,
                               late |-> FALSE])

\* a variant that leaves the active pointer alone
KeepActive(data) == activeCheckpoint
\* if (data.current_checkpoint) setActiveCheckpoint(data.current_checkpoint)
CurrentAfter(data) ==
  IF data.current_checkpoint # NoCp
  THEN data.current_checkpoint ELSE activeCheckpoint

RemoveAt(s, i) == [j \in 1..(Len(s) - 1) |-> IF j < i THEN s[j] ELSE s[j + 1]]

\* the requests in flight once request i is answered: those issued before it
\* are late from then on
Overtaken(i) ==
  [j \in DOMAIN fetches |-> [fetches[j] EXCEPT !.late = @ \/ j < i]]

\* fetchHistory after its await, the request having succeeded
FetchResponse(i) ==
  LET req == fetches[i]
      data == HistoryResponse(req.tid, req.cp)
  IN /\ req.cp = NoCp \/ Exists(req.tid, req.cp)
     /\ fetches' = RemoveAt(Overtaken(i), i)
     /\ nodes' = data.nodes
     /\ edges' = data.edges
     /\ messages' = IF req.skip THEN messages ELSE data.messages
     /\ activeCheckpoint' = CurrentAfter(data)
     /\ lastOp' = IF req.skip THEN "history_skip" ELSE "history"
     /\ UNCHANGED <<threadVars, isLoading, wsState, streamBuffer, rafPending,
                    pendingModels, streamCheckpoints, expected, finished,
                    homeVars, srvVars, boundVars, sessVars>>

\* fetchHistory after its await, the request having failed (the catch branch)
FetchFail(i) ==
  /\ \/ Spend("drops")
     \/ /\ fetches[i].cp # NoCp
        /\ ~Exists(fetches[i].tid, fetches[i].cp)
        /\ left' = left
  /\ fetches' = RemoveAt(fetches, i)
  /\ lastOp' = "history_failed"
  /\ UNCHANGED <<threadVars, hookVars, treeVars, homeVars, srvVars, turn, sessVars>>

\* ------------------------------------------------- useChatWebSocket.onmessage
OnStreamStart(m) ==
  /\ streamBuffer' = With(streamBuffer, m, <<>>)
  /\ pendingModels' = pendingModels \cup {m}
  /\ messages' = Append(messages, StreamingMsg(m))
  /\ lastOp' = ""
  /\ UNCHANGED <<threadVars, isLoading, wsState, rafPending, streamCheckpoints,
                 expected, finished, treeVars, homeVars, fetches, sessVars>>

\* a variant that keeps only the last token
OnStreamTokenOverwrite(m, token) ==
  /\ streamBuffer' = With(streamBuffer, m, <<token>>)
  /\ rafPending' = TRUE
  /\ lastOp' = ""
  /\ UNCHANGED <<threadVars, messages, isLoading, wsState, pendingModels,
                 streamCheckpoints, expected, finished, treeVars, homeVars,
                 fetches, sessVars>>

OnStreamToken(m, token) ==
  /\ streamBuffer' =
       With(streamBuffer, m,
            (IF m \in DOMAIN streamBuffer THEN streamBuffer[m] ELSE <<>>) \o <<token>>)
  /\ rafPending' = TRUE
  /\ lastOp' = ""
  /\ UNCHANGED <<threadVars, messages, isLoading, wsState, pendingModels,
                 streamCheckpoints, expected, finished, treeVars, homeVars,
                 fetches, sessVars>>

\* the requestAnimationFrame callback of stream_token
RafFlush ==
  /\ rafPending
  /\ rafPending' = FALSE
  /\ messages' = MapSeq(messages, LAMBDA msg :
       IF msg.streaming /\ msg.model # NoModel /\ msg.model \in DOMAIN streamBuffer
          /\ msg.content # streamBuffer[msg.model]
       THEN [msg EXCEPT !.content = streamBuffer[msg.model]] ELSE msg)
  /\ lastOp' = ""
  /\ UNCHANGED <<threadVars, isLoading, wsState, streamBuffer, pendingModels,
                 streamCheckpoints, expected, finished, treeVars, homeVars,
                 fetches, srvVars, boundVars, sessVars>>

\* whether the terminal event now arriving completes the count
Finalizes == finished + 1 >= expected

\* a variant that lets every refresh replace the messages
NeverSkip == FALSE
\* const skipMessages = expectedModelsCountRef.current > 1
SkipMessages == expected > 1

\* the tail of the stream_end / error branch: count the event and, when the
\* count is reached, finalize.  cps is streamCheckpointsRef after the branch.
CountTerminal(cps) ==
  IF Finalizes
  THEN /\ rafPending' = FALSE
       /\ IF Len(cps) > 0
          THEN /\ activeCheckpoint' = cps[1]
               /\ FetchHistory(threadId, NoCp, SkipMessages)
          ELSE UNCHANGED <<activeCheckpoint, nodes, edges, fetches>>
       /\ streamCheckpoints' = <<>>
       /\ expected' = 0
       /\ finished' = 0
       /\ isLoading' = FALSE
  ELSE /\ finished' = finished + 1
       /\ streamCheckpoints' = cps
       /\ UNCHANGED <<rafPending, activeCheckpoint, nodes, edges, fetches,
                      expected, isLoading>>

\* history: a finalize step ends the session of the turn, if one is live
NoteTerminal ==
  /\ turnLive' = IF Finalizes THEN FALSE ELSE turnLive
  /\ lastOp' = IF Finalizes
               THEN (IF turnLive THEN "finalized" ELSE "finalized_idle")
               ELSE "counted"
  /\ UNCHANGED <<turnN, rebranch>>

OnStreamEnd(m, cp) ==
  /\ (Finalizes => CanFetch)
  /\ pendingModels' = pendingModels \ {m}
  /\ messages' = MapSeq(messages, LAMBDA msg :
       IF msg.streaming /\ msg.model = m
       THEN [msg EXCEPT
               !.content = IF m \in DOMAIN streamBuffer /\ streamBuffer[m] # <<>>
                           THEN streamBuffer[m] ELSE msg.content,
               !.streaming = FALSE]
       ELSE msg)
  /\ streamBuffer' = Without(streamBuffer, m)
  /\ CountTerminal(Append(streamCheckpoints, cp))
  /\ NoteTerminal
  /\ UNCHANGED <<threadVars, wsState, homeVars>>

\* m = NoModel: the error carries no model tag
OnError(m) ==
  /\ (Finalizes /\ Len(streamCheckpoints) > 0 => CanFetch)
  /\ IF m # NoModel
     THEN /\ pendingModels' = pendingModels \ {m}
          /\ streamBuffer' = Without(streamBuffer, m)
          /\ messages' = SelectSeq(messages, LAMBDA msg :
                                     ~(msg.streaming /\ msg.model = m))
     ELSE UNCHANGED <<pendingModels, streamBuffer, messages>>
  /\ errorModals' = errorModals + 1
  /\ CountTerminal(streamCheckpoints)
  /\ NoteTerminal
  /\ UNCHANGED <<threadVars, wsState, selectedModels,
                 confirmDialog, documents>>

\* a variant that applies every chat_update
AlwaysAllowed == TRUE

\* whether a chat_update arriving now is applied
ChatUpdateAllowed == expected = 0 \/ finished >= expected

OnChatUpdate(msgs, cp) ==
  /\ IF ChatUpdateAllowed
     THEN /\ CanFetch
          /\ messages' = msgs
          /\ activeCheckpoint' = cp
          /\ FetchHistory(threadId, NoCp, FALSE)
          /\ isLoading' = FALSE
          /\ lastOp' = "chat_update_applied"
     ELSE /\ lastOp' = "chat_update_ignored"
          /\ UNCHANGED <<messages, activeCheckpoint, nodes, edges, fetches, isLoading>>
  /\ UNCHANGED <<threadVars, wsState, streamBuffer, rafPending, pendingModels,
                 streamCheckpoints, expected, finished, homeVars, sessVars>>

OnTitleUpdate ==
  /\ CanFetch
  /\ FetchHistory(threadId, NoCp, expected > 1 \/ finished > 0)
  /\ lastOp' = ""
  /\ UNCHANGED <<threadVars, hookVars, activeCheckpoint, homeVars, sessVars>>

\* ------------------------------------------------ useChatWebSocket: commands
\* a variant that reads no loading state
NeverLoading == FALSE

\* the isLoading a command reads before it does anything
Loading == isLoading

Trim(input) == IF input = "" THEN <<>> ELSE UserText

\* one request per selected model, all naming the same parent
\* a variant that leaves parent_checkpoint_id out of the requests
RequestsUnderRoot(models, parent, synth, delib) ==
  {[turn |-> turn + 1, model |-> models[i], parent |-> NoCp, synth |-> synth,
    delib |-> delib, phase |-> "queued", ntok |-> 0, quote |-> FALSE] :
     i \in DOMAIN models}

Requests(models, parent, synth, delib) ==
  {[turn |-> turn + 1, model |-> models[i], parent |-> parent, synth |-> synth,
    delib |-> delib, phase |-> "queued", ntok |-> 0, quote |-> FALSE] :
     i \in DOMAIN models}

\* history: n requests were sent, a turn is in flight
StartTurn(n) ==
  /\ left.fanout # <<>>
  /\ Head(left.fanout) = n
  /\ turn' = turn + 1
  /\ left' = [left EXCEPT !.fanout = Tail(@)]
  /\ turnLive' = TRUE
  /\ turnN' = n
  /\ rebranch' = NoEdit

\* history: a request was refused because the connection is not open
NoteReject ==
  /\ Spend("rejects")
  /\ UNCHANGED <<turn, sessVars>>

SendInteractiveMessage(input, isDeliberation) ==
  LET userMessage == Trim(input) IN
  IF Loading
  THEN /\ lastOp' = "send_busy"
       /\ Spend("refused")
       /\ UNCHANGED <<threadVars, hookVars, treeVars, homeVars, fetches, srvVars,
                      turn, sessVars>>
  ELSE IF userMessage = <<>> /\ ~isDeliberation
  THEN /\ lastOp' = "send_nothing"
       /\ Spend("refused")
       /\ UNCHANGED <<threadVars, hookVars, treeVars, homeVars, fetches, srvVars,
                      turn, sessVars>>
  ELSE /\ messages' = IF userMessage # <<>>
                      THEN Append(messages, UserMsg(userMessage)) ELSE messages
       /\ expected' = Len(selectedModels)
       /\ finished' = 0
       /\ IF wsState = "open"
          THEN /\ isLoading' = TRUE
               /\ tasks' = tasks \cup Requests(selectedModels, activeCheckpoint,
                                                FALSE, isDeliberation)
               /\ StartTurn(Len(selectedModels))
               /\ documents' = {}
               /\ lastOp' = "send_sent"
               /\ UNCHANGED confirmDialog
          ELSE /\ isLoading' = FALSE
               /\ confirmDialog' = TRUE
               /\ NoteReject
               /\ lastOp' = "send_rejected"
               /\ UNCHANGED <<tasks, documents>>
       /\ UNCHANGED <<threadVars, wsState, streamBuffer, rafPending, pendingModels,
                      streamCheckpoints, treeVars, selectedModels, errorModals,
                      fetches, stops, store, nextCp, calls>>

SynthesizeConsensus(parentId) ==
  IF Loading
  THEN /\ lastOp' = "synthesis_busy"
       /\ Spend("refused")
       /\ UNCHANGED <<threadVars, hookVars, treeVars, homeVars, fetches, srvVars,
                      turn, sessVars>>
  ELSE /\ expected' = 1
       /\ finished' = 0
       /\ IF wsState = "open"
          THEN /\ isLoading' = TRUE
               /\ tasks' = tasks \cup Requests(<<SynthModel>>, parentId, TRUE, FALSE)
               /\ StartTurn(1)
               /\ documents' = {}
               /\ lastOp' = "synthesis_sent"
          ELSE /\ isLoading' = FALSE
               /\ NoteReject
               /\ lastOp' = "synthesis_rejected"
               /\ UNCHANGED <<tasks, documents>>
       /\ UNCHANGED <<threadVars, messages, wsState, streamBuffer,
                      rafPending, pendingModels, streamCheckpoints, treeVars,
                      selectedModels, errorModals, confirmDialog, fetches,
                      stops, store, nextCp, calls>>

\* a variant that leaves the message as it is
Untouched(msg) == msg
\* prev.map((m) => (m.streaming ? { ...m, streaming: false } : m))
Settled(msg) == IF msg.streaming THEN [msg EXCEPT !.streaming = FALSE] ELSE msg

StopStreaming ==
  /\ stops' = IF wsState = "open" THEN stops \cup {turn} ELSE stops
  /\ isLoading' = FALSE
  /\ pendingModels' = {}
  /\ streamBuffer' = <<>>
  /\ expected' = 0
  /\ finished' = 0
  /\ messages' = MapSeq(messages, Settled)
  /\ turnLive' = FALSE
  /\ lastOp' = "stop"
  /\ UNCHANGED <<threadVars, wsState, rafPending, streamCheckpoints, treeVars,
                 homeVars, fetches, tasks, store, nextCp, calls, turn, turnN,
                 rebranch>>

\* the effect of useChatWebSocket run for a changed threadId: the cleanup of
\* the previous run, then a new WebSocket
Reconnect ==
  /\ wsState' = "connecting"
  /\ rafPending' = FALSE
  /\ streamBuffer' = <<>>
  /\ pendingModels' = {}
  /\ expected' = 0
  /\ finished' = 0
  /\ turnLive' = FALSE
  /\ tasks' = {}
  /\ stops' = {}

\* the cleanup of the effect's previous run, no thread being current after it
Disconnect ==
  /\ wsState' = "none"
  /\ rafPending' = FALSE
  /\ streamBuffer' = <<>>
  /\ pendingModels' = {}
  /\ expected' = 0
  /\ finished' = 0
  /\ turnLive' = FALSE
  /\ tasks' = {}
  /\ stops' = {}

\* useThreads.deleteThread up to its request; what the rest of the function
\* reads is the threadId it saw when it was called
DeleteThread(id, confirmed) ==
  /\ Spend("removals")
  /\ IF confirmed
     THEN /\ Len(calls) < MaxCalls
          /\ calls' = Append(calls,
               [kind |-> "thread", tid |-> id, target |-> NoCp,
                active |-> NoCp, parent |-> NoCp, current |-> threadId,
                state |-> "sent", was |-> NoCp])
          /\ lastOp' = "removal_requested"
     ELSE /\ calls' = calls
          /\ lastOp' = "removal_declined"
  /\ UNCHANGED <<threadVars, hookVars, treeVars, homeVars, fetches, tasks, stops,
                 store, nextCp, turn, sessVars>>

\* a variant that never takes the deleted thread for the current one
NeverCurrent(call) == FALSE
\* id === threadId
IsCurrent(call) == call.tid = call.current

\* useThreads.deleteThread after its request succeeded; Home.handleThreadDeleted
\* when the thread deleted was the current one
DeleteThreadReturn(i) ==
  LET call == calls[i] IN
  /\ call.kind = "thread"
  /\ call.state = "ok"
  /\ calls' = RemoveAt(calls, i)
  /\ IF IsCurrent(call)
     THEN /\ threadId' = NoThread
          /\ storedThreadId' = NoThread
          /\ nodes' = {}
          /\ edges' = {}
          /\ activeCheckpoint' = NoCp
          /\ messages' = <<>>
          /\ documents' = {}
          /\ IF threadId # NoThread
             THEN Disconnect
             ELSE UNCHANGED <<wsState, rafPending, streamBuffer, pendingModels,
                              expected, finished, turnLive, tasks, stops>>
          /\ lastOp' = "removed_current"
     ELSE /\ lastOp' = "removed_other"
          /\ UNCHANGED <<threadVars, treeVars, messages, documents, wsState,
                         rafPending, streamBuffer, pendingModels, expected,
                         finished, turnLive, tasks, stops>>
  /\ UNCHANGED <<isLoading, streamCheckpoints, selectedModels, errorModals,
                 confirmDialog, fetches, store, nextCp, boundVars, turnN,
                 rebranch>>

\* useThreads.deleteThread after its request failed (the catch branch)
DeleteThreadFail(i) ==
  /\ calls[i].kind = "thread"
  /\ calls[i].state = "sent"
  /\ Spend("drops")
  /\ calls' = RemoveAt(calls, i)
  /\ lastOp' = "removal_failed"
  /\ UNCHANGED <<threadVars, hookVars, treeVars, homeVars, fetches, tasks, stops,
                 store, nextCp, turn, sessVars>>

\* Home.handleFileUpload after the upload answered
HandleFileUpload(doc) ==
  /\ Spend("uploads")
  /\ documents' = documents \cup {doc}
  /\ lastOp' = ""
  /\ UNCHANGED <<threadVars, hookVars, treeVars, selectedModels, errorModals,
                 confirmDialog, fetches, srvVars, turn, sessVars>>

\* ------------------------------------------------------------------- Home
\* ChatView: the arena footer and its Synthesize Consensus button
IsSynthesisNode(n) == n.label = "Consensus Convergence" \/ n.label = LeadPhrase
\* a variant of the handler's lookup that finds no parent edge
NoParentEdge(cp) == NoCp
ParentId(cp) ==
  IF \E e \in edges : e.target = cp
  THEN (CHOOSE e \in edges : e.target = cp).source ELSE NoCp
Siblings ==
  LET parentId == ParentId(activeCheckpoint) IN
  IF parentId # NoCp
  THEN {n \in nodes : (\E e \in edges : e.source = parentId /\ e.target = n.id)
                      /\ ~IsSynthesisNode(n)}
  ELSE {}
IsArenaActive ==
  /\ Cardinality(Siblings) > 1
  /\ ~(\E n \in nodes : n.id = activeCheckpoint /\ IsSynthesisNode(n))

\* a variant that only looks at loading and the conversation
DisabledWhileLoading == isLoading \/ messages = <<>>
\* the deliberate button is disabled while loading, unless exactly one model
\* is selected, and on an empty conversation
DeliberateDisabled ==
  isLoading \/ Len(selectedModels) # 1 \/ messages = <<>>

\* ChatInput.handleDeliberateClick, through Home.handleDeliberate
HandleDeliberateClick(input) ==
  /\ left.delibs > 0
  /\ ~DeliberateDisabled
  /\ Trim(input) # <<>> /\ ~isLoading
  /\ SendInteractiveMessage(input, TRUE)

\* a variant that names the checkpoint in view as the parent
SynthesizeFromActive ==
  /\ IsArenaActive
  /\ SynthesizeConsensus(activeCheckpoint)

ClickSynthesize ==
  /\ IsArenaActive
  /\ SynthesizeConsensus(ParentId(activeCheckpoint))

\* ChatInput: the stop button is rendered while isLoading
ClickStop ==
  /\ isLoading
  /\ Spend("stops")
  /\ StopStreaming

SwitchThread(id) ==
  /\ CanFetch
  /\ Spend("switches")
  /\ threadId' = id
  /\ storedThreadId' = id
  /\ FetchHistory(id, NoCp, FALSE)
  /\ IF id # threadId
     THEN Reconnect
     ELSE UNCHANGED <<wsState, rafPending, streamBuffer, pendingModels, expected,
                      finished, turnLive, tasks, stops>>
  /\ rebranch' = NoEdit
  /\ lastOp' = ""
  /\ UNCHANGED <<messages, isLoading, streamCheckpoints, activeCheckpoint,
                 homeVars, store, nextCp, calls, turn, turnN>>

HandleModelToggle(m) ==
  /\ IF m \in Range(selectedModels)
     THEN /\ Len(selectedModels) > 1
          /\ selectedModels' = SelectSeq(selectedModels, LAMBDA x : x # m)
     ELSE selectedModels' = Append(selectedModels, m)
  /\ lastOp' = ""
  /\ UNCHANGED <<threadVars, hookVars, treeVars, errorModals, confirmDialog, documents,
                 fetches, srvVars, boundVars, sessVars>>

HandleNodeClick(id) ==
  LET clickedNode == CHOOSE n \in nodes : n.id = id IN
  /\ threadId # NoThread
  /\ CanFetch
  /\ activeCheckpoint' = id
  /\ selectedModels' = IF clickedNode.peer # NoModel
                       THEN <<clickedNode.peer>> ELSE selectedModels
  /\ fetches' = Append(fetches, [tid |-> threadId, cp |-> id, skip |-> FALSE,
                               late |-> FALSE])
  /\ Spend("clicks")
  /\ rebranch' = NoEdit
  /\ lastOp' = "node_click"
  /\ UNCHANGED <<threadVars, hookVars, nodes, edges, errorModals, confirmDialog, documents,
                 srvVars, turn, turnLive, turnN>>

\* Home.editAndRebranch
EditAndRebranch ==
  /\ \E n \in nodes : n.id = activeCheckpoint
  /\ threadId # NoThread
  /\ CanFetch
  /\ Spend("edits")
  /\ activeCheckpoint' = ParentId(activeCheckpoint)
  /\ nodes' = IF ParentId(activeCheckpoint) = NoCp THEN {} ELSE nodes
  /\ edges' = IF ParentId(activeCheckpoint) = NoCp THEN {} ELSE edges
  /\ fetches' = Append(fetches, [tid |-> threadId,
                                 cp |-> ParentId(activeCheckpoint),
                                 skip |-> FALSE, late |-> FALSE])
  /\ rebranch' = ParentId(activeCheckpoint)
  /\ lastOp' = "edit_rebranch"
  /\ UNCHANGED <<threadVars, hookVars, homeVars, srvVars, turn, turnLive, turnN>>

\* Home.deleteNode up to its request: the tree passes the node's id; what the
\* rest of the handler reads is what it captured when it was called
DeleteNode(nodeId, confirmed) ==
  /\ threadId # NoThread
  /\ Spend("deletes")
  /\ IF confirmed
     THEN /\ Len(calls) < MaxCalls
          /\ calls' = Append(calls,
               [kind |-> "checkpoint", tid |-> threadId, target |-> nodeId,
                active |-> activeCheckpoint, parent |-> ParentId(nodeId),
                current |-> threadId, state |-> "sent", was |-> NoCp])
          /\ lastOp' = "delete_requested"
     ELSE /\ calls' = calls
          /\ lastOp' = "delete_declined"
  /\ UNCHANGED <<threadVars, hookVars, treeVars, homeVars, fetches, tasks, stops,
                 store, nextCp, turn, sessVars>>

\* Home.deleteNode after its request succeeded
DeleteNodeReturn(i) ==
  LET call == calls[i] IN
  /\ call.kind = "checkpoint"
  /\ call.state = "ok"
  /\ CanFetch
  /\ calls' = RemoveAt(calls, i)
  /\ IF call.active = call.target
     THEN /\ messages' = <<>>
          /\ activeCheckpoint' = call.parent
          /\ FetchHistory(call.tid, call.parent, FALSE)
          /\ lastOp' = "deleted_active"
     ELSE /\ FetchHistory(call.tid, call.active, FALSE)
          /\ lastOp' = "deleted_other"
          /\ UNCHANGED <<messages, activeCheckpoint>>
  /\ rebranch' = NoEdit
  /\ UNCHANGED <<threadVars, isLoading, wsState, streamBuffer, rafPending,
                 pendingModels, streamCheckpoints, expected, finished,
                 homeVars, tasks, stops, store, nextCp, boundVars, turnLive,
                 turnN>>

\* Home.deleteNode after its request failed (the catch branch)
DeleteNodeFail(i) ==
  /\ calls[i].kind = "checkpoint"
  /\ \/ calls[i].state = "sent" /\ Spend("drops")
     \/ calls[i].state = "not_found" /\ left' = left
  /\ calls' = RemoveAt(calls, i)
  /\ lastOp' = "delete_failed"
  /\ UNCHANGED <<threadVars, hookVars, treeVars, homeVars, fetches, tasks, stops,
                 store, nextCp, turn, sessVars>>

\* the toggles exercised: while no turn is loading the user brings the
\* selection to the size of the next turn, adding models in the order the
\* panel lists them and removing the one added last
CanToggle(m) ==
  /\ ~isLoading
  /\ left.fanout # <<>>
  /\ \/ /\ m \notin Range(selectedModels)
        /\ Len(selectedModels) < Head(left.fanout)
        /\ \A j \in DOMAIN ModelOrder : ModelOrder[j] = m =>
              \A k \in 1..(j - 1) : ModelOrder[k] \in Range(selectedModels)
     \/ /\ m = selectedModels[Len(selectedModels)]
        /\ Len(selectedModels) > Head(left.fanout)

\* ------------------------------------------------------------ the connection
WsOpened ==
  /\ wsState = "connecting"
  /\ wsState' = "open"
  /\ lastOp' = ""
  /\ UNCHANGED <<threadVars, messages, isLoading, streamBuffer, rafPending,
                 pendingModels, streamCheckpoints, expected, finished, treeVars,
                 homeVars, fetches, srvVars, boundVars, sessVars>>

\* the connection is lost; the client has no handler for it
WsClosed ==
  /\ wsState = "open"
  /\ Spend("drops")
  /\ wsState' = "closed"
  /\ tasks' = {}
  /\ stops' = {}
  /\ lastOp' = ""
  /\ UNCHANGED <<threadVars, messages, isLoading, streamBuffer, rafPending,
                 pendingModels, streamCheckpoints, expected, finished, treeVars,
                 homeVars, fetches, store, nextCp, calls, turn, sessVars>>

\* ---------------------------------------------------------------- the server
\* the task belongs to the turn whose session is live on the client
Own(t) == turnLive /\ t.turn = turn
\* the task belongs to a turn the client has stopped
Stopped(t) == \E s \in stops : t.turn <= s
\* the server reads the commands of a connection in order: a request sent
\* after a stop is not served before the stop is
CanEmit(t) == wsState = "open" /\ \A s \in stops : t.turn <= s

SrvStreamStart(t) ==
  /\ CanEmit(t)
  /\ t.phase = "queued"
  /\ tasks' = (tasks \ {t}) \cup {[t EXCEPT !.phase = "streaming"]}
  /\ OnStreamStart(t.model)
  /\ UNCHANGED <<stops, store, nextCp, calls, boundVars>>

\* the model starts a reply that quotes the synthesis prompt
SrvStreamStartQuoting(t) ==
  /\ CanEmit(t)
  /\ t.phase = "queued"
  /\ ~t.synth
  /\ Spend("quotes")
  /\ tasks' = (tasks \ {t}) \cup {[t EXCEPT !.phase = "streaming", !.quote = TRUE]}
  /\ OnStreamStart(t.model)
  /\ UNCHANGED <<stops, store, nextCp, calls, turn>>

SrvStreamToken(t) ==
  /\ CanEmit(t)
  /\ t.phase = "streaming"
  /\ Spend("tokens")
  /\ tasks' = (tasks \ {t}) \cup {[t EXCEPT !.ntok = t.ntok + 1]}
  /\ OnStreamToken(t.model, Generated([t EXCEPT !.ntok = @ + 1])[t.ntok + 1])
  /\ UNCHANGED <<stops, store, nextCp, calls, turn>>

\* CreateCheckpoint, then stream_end carrying the new id
SrvStreamEnd(t) ==
  /\ CanEmit(t)
  /\ t.phase = "streaming"
  /\ t.parent = NoCp \/ Exists(threadId, t.parent)
  /\ store' = store \cup
       {[id |-> nextCp, tid |-> threadId, parent |-> t.parent,
         role |-> IF t.synth THEN "synthesis" ELSE "ai", model |-> t.model,
         content |-> Generated(t), turn |-> t.turn]}
  /\ nextCp' = nextCp + 1
  /\ tasks' = tasks \ {t}
  /\ OnStreamEnd(t.model, nextCp)
  /\ UNCHANGED <<stops, calls, boundVars>>

\* CreateCheckpoint fails with UnknownParent: the task ends in an error
SrvUnknownParent(t) ==
  /\ CanEmit(t)
  /\ t.phase = "streaming"
  /\ t.parent # NoCp /\ ~Exists(threadId, t.parent)
  /\ tasks' = tasks \ {t}
  /\ OnError(t.model)
  /\ UNCHANGED <<stops, store, nextCp, calls, boundVars>>

\* DELETE /history/{tid}/checkpoints/{id}
SrvDeleteCheckpoint(i) ==
  LET call == calls[i] IN
  /\ call.kind = "checkpoint"
  /\ call.state = "sent"
  /\ IF Exists(call.tid, call.target)
     THEN /\ DeleteCheckpoint(call.tid, call.target)
          /\ calls' = [calls EXCEPT ![i].state = "ok",
                                    ![i].was = Cp(call.target).parent]
     ELSE /\ store' = store
          /\ calls' = [calls EXCEPT ![i].state = "not_found"]
  /\ lastOp' = "checkpoint_deleted"
  /\ UNCHANGED <<threadVars, hookVars, treeVars, homeVars, fetches, tasks, stops,
                 nextCp, boundVars, sessVars>>

\* DELETE /threads/{id}: the thread goes with all its checkpoints
SrvDeleteThread(i) ==
  LET call == calls[i] IN
  /\ call.kind = "thread"
  /\ call.state = "sent"
  /\ store' = {c \in store : c.tid # call.tid}
  /\ calls' = [calls EXCEPT ![i].state = "ok"]
  /\ lastOp' = "thread_deleted"
  /\ UNCHANGED <<threadVars, hookVars, treeVars, homeVars, fetches, tasks, stops,
                 nextCp, boundVars, sessVars>>

SrvError(t, tagged) ==
  /\ CanEmit(t)
  /\ Spend("errors")
  /\ tasks' = tasks \ {t}
  /\ OnError(IF tagged THEN t.model ELSE NoModel)
  /\ UNCHANGED <<stops, store, nextCp, calls, turn>>

\* the server reads a stop: the tasks requested before it are cancelled and
\* emit nothing more
SrvStop ==
  /\ stops # {}
  /\ LET s == CHOOSE x \in stops : \A y \in stops : x <= y IN
       /\ tasks' = {t \in tasks : t.turn > s}
       /\ stops' = stops \ {s}
  /\ lastOp' = ""
  /\ UNCHANGED <<threadVars, hookVars, treeVars, homeVars, fetches, store, nextCp, calls,
                 boundVars, sessVars>>

SrvChatUpdate(cp) ==
  /\ wsState = "open"
  /\ Exists(threadId, cp)
  /\ Spend("pushes")
  /\ OnChatUpdate(GetPath(cp), cp)
  /\ UNCHANGED <<tasks, stops, store, nextCp, calls, turn>>

SrvTitleUpdate ==
  /\ wsState = "open"
  /\ Spend("pushes")
  /\ OnTitleUpdate
  /\ UNCHANGED <<tasks, stops, store, nextCp, calls, turn>>

\* ------------------------------------------------------------ specification
Next ==
  \/ \E id \in Threads : SwitchThread(id)
  \/ WsOpened
  \/ WsClosed
  \/ \E m \in Models : CanToggle(m) /\ HandleModelToggle(m)
  \/ \E n \in nodes : HandleNodeClick(n.id)
  \/ \E input \in Inputs : SendInteractiveMessage(input, FALSE)
  \/ \E input \in Inputs : HandleDeliberateClick(input)
  \/ ClickSynthesize
  \/ ClickStop
  \/ RafFlush
  \/ \E i \in DOMAIN fetches : FetchResponse(i)
  \/ \E i \in DOMAIN fetches : FetchFail(i)
  \/ \E n \in nodes, confirmed \in BOOLEAN : DeleteNode(n.id, confirmed)
  \/ EditAndRebranch
  \/ \E id \in Library, confirmed \in BOOLEAN : DeleteThread(id, confirmed)
  \/ \E i \in DOMAIN calls : DeleteThreadReturn(i)
  \/ \E i \in DOMAIN calls : DeleteThreadFail(i)
  \/ \E i \in DOMAIN calls : SrvDeleteThread(i)
  \/ \E doc \in Docs : HandleFileUpload(doc)
  \/ \E i \in DOMAIN calls : DeleteNodeReturn(i)
  \/ \E i \in DOMAIN calls : DeleteNodeFail(i)
  \/ \E i \in DOMAIN calls : SrvDeleteCheckpoint(i)
  \/ \E t \in tasks : SrvUnknownParent(t)
  \/ \E t \in tasks : SrvStreamStart(t)
  \/ \E t \in tasks : SrvStreamStartQuoting(t)
  \/ \E t \in tasks : SrvStreamToken(t)
  \/ \E t \in tasks : SrvStreamEnd(t)
  \/ \E t \in tasks, tagged \in BOOLEAN : SrvError(t, tagged)
  \/ SrvStop
  \/ \E cp \in CpIds(threadId) : SrvChatUpdate(cp)
  \/ SrvTitleUpdate

Spec == Init /\ [][Next]_vars

\* every step that is possible is eventually taken, except that the user is
\* never bound to press stop
LiveSpec == Init /\ [][Next]_vars /\ WF_vars(Next /\ lastOp' # "stop")

TypeOK ==
  /\ threadId \in Threads \cup {NoThread}
  /\ storedThreadId \in Threads \cup {NoThread}
  /\ documents \subseteq Docs
  /\ rebranch \in {NoEdit} \cup (0..nextCp)
  /\ Len(calls) <= MaxCalls
  /\ isLoading \in BOOLEAN
  /\ wsState \in {"none", "connecting", "open", "closed"}
  /\ DOMAIN streamBuffer \subseteq AllModels
  /\ pendingModels \subseteq AllModels
  /\ expected \in 0..Cardinality(AllModels)
  /\ finished \in 0..Cardinality(AllModels)
  /\ activeCheckpoint \in 0..nextCp

\* ------------------------------------------------------------- properties
\* the tasks of the turn last started that have not delivered a terminal event
OwnTasks == {t \in tasks : t.turn = turn}
\* the checkpoints whose stream_end was received in the turn last started
OwnCps == {c.id : c \in {d \in store : d.turn = turn}}
Min(S) == CHOOSE x \in S : \A y \in S : x <= y
\* the outcomes of a call of sendInteractiveMessage or synthesizeConsensus
Attempts == {"send_busy", "send_nothing", "send_sent", "send_rejected",
             "synthesis_busy", "synthesis_sent", "synthesis_rejected"}
\* this step delivers a terminal event of task t
Delivers(t) ==
  /\ t \in tasks
  /\ t \notin tasks'
  /\ lastOp' \in {"counted", "finalized", "finalized_idle"}
\* this step closes every placeholder of model m with the given content
Closes(m, content) ==
  /\ DOMAIN messages' = DOMAIN messages
  /\ \A i \in DOMAIN messages :
       messages[i].streaming /\ messages[i].model = m =>
         ~messages'[i].streaming /\ messages'[i].content = content

\* C1: a turn that was not cancelled finalizes only once each of its N tasks
\* has delivered its terminal event, and has finalized as soon as they all have.
C1_FinalizeOnNth ==
  /\ lastOp = "finalized" => OwnTasks = {}
  /\ turnLive /\ wsState = "open" => OwnTasks # {}

\* C2: when a turn finalizes having received a stream_end, the active
\* checkpoint is the checkpoint of the first stream_end received in that turn.
C2_FirstStreamEndActive ==
  lastOp = "finalized" /\ OwnCps # {} => activeCheckpoint = Min(OwnCps)

\* C3: a turn of three models that has received two errors and one stream_end
\* finalizes with the checkpoint of that stream_end as the active checkpoint.
C3_FailureIsolated ==
  lastOp = "finalized" /\ turnN = 3 /\ OwnTasks = {} /\ Cardinality(OwnCps) = 1
    => activeCheckpoint \in OwnCps

\* C4: while a turn is in flight a call of sendInteractiveMessage or
\* synthesizeConsensus returns at once: no request is sent, nothing is kept
\* for later, and expected and finished stay as they are.
C4_OneTurnInFlight ==
  [][turnLive /\ lastOp' \in Attempts =>
       /\ lastOp' \in {"send_busy", "synthesis_busy"}
       /\ UNCHANGED <<tasks, fetches, messages, expected, finished, turn>>]_vars
C4_Witness == lastOp = "send_busy" /\ turnLive /\ expected = 2 /\ finished = 1

\* C5: a chat_update that arrives while the session expects more than one
\* model and has not counted them all replaces neither the messages nor the
\* active checkpoint.
C5_ChatUpdateHeld ==
  [][expected > 1 /\ finished < expected
       /\ lastOp' \in {"chat_update_applied", "chat_update_ignored"} =>
       /\ lastOp' = "chat_update_ignored"
       /\ UNCHANGED <<messages, activeCheckpoint>>]_vars
C5_Witness ==
  lastOp = "chat_update_ignored" /\ turnLive /\ expected = 2 /\ finished = 1

\* C6: from the start of a turn to its finalization no step other than the
\* user's click of a tree node changes the active checkpoint.
C6_NoMidStreamWrite ==
  [][turnLive /\ turnLive' /\ lastOp' # "node_click" =>
       UNCHANGED activeCheckpoint]_vars

C8_StoppedTurnIsInert ==
  [][(\E t \in tasks : Stopped(t) /\ Delivers(t)) =>
       /\ UNCHANGED activeCheckpoint
       /\ Len(streamCheckpoints') <= Len(streamCheckpoints)]_vars

\* C9: a send or a synthesis attempted while the connection is not open shows
\* the user a message, sends no request and leaves the loading state cleared.
C9_RejectedWithMessage ==
  [][lastOp' \in {"send_rejected", "synthesis_rejected"} =>
       /\ confirmDialog' \/ errorModals' > errorModals
       /\ ~isLoading'
       /\ UNCHANGED tasks]_vars

\* C10: a synthesis sends exactly one request, with expected = 1, whose
\* parent is the parent the siblings in the arena share and none of them; a
\* synthesis checkpoint is a sibling of the replies it was made from.
C10_SynthesisUnderSharedParent ==
  [][lastOp' = "synthesis_sent" =>
       /\ expected' = 1
       /\ \E r \in tasks' :
            /\ tasks' = tasks \cup {r}
            /\ r \notin tasks
            /\ r.synth
            /\ r.parent \notin {n.id : n \in Siblings}
            /\ \A n \in Siblings :
                 [source |-> r.parent, target |-> n.id] \in edges]_vars
C10_Witness ==
  \E c \in store : c.role = "synthesis" /\ \E d \in store : d.role = "ai" /\ d.parent = c.parent /\ d.parent # NoCp

\* the replies shown under the parent of the checkpoint in view
ArenaChildren ==
  {n \in nodes : ParentId(activeCheckpoint) # NoCp
                 /\ [source |-> ParentId(activeCheckpoint), target |-> n.id] \in edges
                 /\ Exists(threadId, n.id)}

\* C11: a reply shown under the parent of the checkpoint in view is in the
\* sibling set of the arena (and among the inputs of a synthesis) exactly when
\* its role is not synthesis, whatever its text.
C11_SiblingsByRole ==
  \A n \in ArenaChildren : n \in Siblings <=> Cp(n.id).role # "synthesis"

RECURSIVE PathIds(_)
PathIds(id) ==
  IF id = NoCp \/ ~(\E c \in store : c.id = id) THEN {}
  ELSE {id} \cup PathIds(Cp(id).parent)

\* C13: the store's delete takes one step; in it the checkpoints removed are
\* exactly the one named and those that have it among their ancestors, and
\* every other checkpoint is left as it was; a delete that names a
\* checkpoint the store does not hold removes nothing.
C13_DeleteRemovesExactlySubtree ==
  [][lastOp' = "checkpoint_deleted" =>
       \E i \in DOMAIN calls :
          /\ calls[i].state = "sent" /\ calls'[i].state # "sent"
          /\ store' = {c \in store : ~(c.tid = calls[i].tid
                                       /\ calls[i].target \in PathIds(c.id))}]_vars
C13_Witness ==
  /\ lastOp = "checkpoint_deleted"
  /\ store = {}
  /\ nextCp = 4

\* C14: in the store every checkpoint with a parent has that parent among
\* the checkpoints of its own thread, and the parent was created before it;
\* so ids fall strictly along every parent chain, which is therefore finite
\* and free of cycles.
C14_ParentsExist ==
  \A c \in store :
     c.parent # NoCp =>
       \E p \in store : p.id = c.parent /\ p.tid = c.tid /\ p.id < c.id
C14_Witness ==
  /\ nextCp - 1 > Cardinality(store)
  /\ \E c \in store : c.parent # NoCp /\ c.turn = turn

\* the requests and the checkpoints of turn k
TasksOf(k) == {t \in tasks : t.turn = k}
CpsOf(k) == {c \in store : c.turn = k}

\* C15: a send that goes out with N models selected adds exactly N requests,
\* one for each selected model, and every one of them names the checkpoint
\* active at that moment as its parent; afterwards a checkpoint appears only
\* in exchange for one of the requests, as a child of the parent the request
\* named, so a turn never has more checkpoints than requests were sent.
C15_FanOutOnePerModel ==
  [][/\ lastOp' = "send_sent" =>
          LET sent == tasks' \ tasks IN
          /\ Cardinality(sent) = Len(selectedModels)
          /\ \A i \in DOMAIN selectedModels :
                Cardinality({t \in sent : t.model = selectedModels[i]}) = 1
          /\ \A t \in sent : /\ t.parent = activeCheckpoint
                              /\ t.turn = turn'
                              /\ ~t.synth
          /\ TasksOf(turn') \cap tasks = {}
          /\ {c \in store' : c.turn = turn'} = {}
     /\ \A c \in store' \ store :
          \E t \in tasks \ tasks' :
             /\ c.turn = t.turn /\ c.model = t.model /\ c.parent = t.parent
             /\ store' \ store = {c}
             /\ tasks' = tasks \ {t}
     /\ \A t \in tasks' :
          t.turn <= turn =>
            \E u \in tasks : /\ u.turn = t.turn /\ u.model = t.model
                             /\ u.parent = t.parent]_vars
C15_Witness ==
  /\ Cardinality(CpsOf(turn)) = 2
  /\ turnN = 2
  /\ \E p \in store : \A c \in CpsOf(turn) : c.parent = p.id /\ ~(c.role = "synthesis")

\* the turn last started was sent with the deliberate button and has not
\* received its terminal event
Deliberating == turnLive /\ \E t \in TasksOf(turn) : t.delib

\* C16: a deliberation goes out only with exactly one model selected, as one
\* request with expected = 1; expected stays 1 while the turn runs, and the
\* first terminal event that arrives finalizes the turn: loading is cleared
\* and the event is not merely counted.
C16_DeliberationExpectsOne ==
  [][/\ (turn' # turn /\ \E t \in tasks' : t.delib /\ t.turn = turn') =>
          /\ Len(selectedModels) = 1
          /\ Cardinality({t \in tasks' : t.turn = turn'}) = 1
          /\ expected' = 1
     /\ Deliberating => expected = 1
     /\ Deliberating /\ lastOp' \in {"counted", "finalized", "finalized_idle"} =>
          /\ lastOp' # "counted"
          /\ ~isLoading' /\ ~turnLive']_vars
C16_Witness ==
  /\ Deliberating
  /\ isLoading /\ expected = 1
  /\ \E t \in TasksOf(turn) : t.phase = "streaming"

C18_ChatUpdateAppliedOutsideFanOut ==
  [][lastOp' \in {"chat_update_applied", "chat_update_ignored"} /\ expected <= 1 =>
       /\ lastOp' = "chat_update_applied"
       /\ ~isLoading'
       /\ \E cp \in CpIds(threadId) :
             activeCheckpoint' = cp /\ messages' = GetPath(cp)]_vars

C20_FetchHistory ==
  [][/\ lastOp' = "history" =>
          \E i \in DOMAIN fetches :
             LET data == HistoryResponse(fetches[i].tid, fetches[i].cp) IN
             /\ fetches' = RemoveAt(Overtaken(i), i)
             /\ ~fetches[i].skip
             /\ nodes' = data.nodes
             /\ edges' = data.edges
             /\ messages' = data.messages
             /\ IF data.current_checkpoint # NoCp
                THEN activeCheckpoint' = data.current_checkpoint
                ELSE activeCheckpoint' = activeCheckpoint
     /\ lastOp' = "history_failed" => UNCHANGED <<messages, activeCheckpoint>>]_vars
C20_Witness ==
  /\ lastOp = "history"
  /\ activeCheckpoint # NoCp
  /\ rebranch = NoCp
  /\ \E n \in nodes : n.id = activeCheckpoint
  /\ messages = GetPath(activeCheckpoint)

\* C21: the history request issued when a turn of more than one model
\* finalizes asks for the messages to be skipped, and the answer to such a
\* request changes nothing but the nodes, the edges and the active
\* checkpoint: the message list stays as displayed.
C21_FanOutRefreshKeepsMessages ==
  [][/\ lastOp' = "finalized" /\ turnN > 1 =>
          \A i \in DOMAIN fetches' :
             i > Len(fetches) => fetches'[i].skip
     /\ lastOp' = "history_skip" =>
          UNCHANGED <<messages, threadVars, isLoading, wsState, streamBuffer,
                      rafPending, pendingModels, streamCheckpoints, expected,
                      finished, homeVars, srvVars>>]_vars
C21_Witness ==
  /\ lastOp = "history_skip"
  /\ turnN = 2 /\ ~turnLive
  /\ nodes # {}
  /\ \E i, j \in DOMAIN messages :
        /\ i < j
        /\ messages[i].role = "assistant" /\ messages[j].role = "assistant"
        /\ messages[i].model # messages[j].model
        /\ messages[i].content # <<>>

\* C22: when a turn starts no checkpoint id is held over from before it, and
\* the checkpoint a finalizing turn makes active is one whose stream_end
\* that turn received.
C22_NoLeftoverCheckpoints ==
  [][/\ turn' # turn => streamCheckpoints' = <<>>
     /\ lastOp' = "finalized" /\ activeCheckpoint' # activeCheckpoint =>
          \E c \in store' : c.id = activeCheckpoint' /\ c.turn = turn]_vars

\* C23: a terminal event of a turn older than the one in flight leaves the
\* finished counter and the session of the turn in flight as they are, so a
\* turn finalizes only on terminal events of its own requests.
C23_StaleEventsNotCounted ==
  [][(\E t \in tasks : t.turn < turn /\ Delivers(t)) =>
       /\ finished' = finished
       /\ turnLive' = turnLive
       /\ isLoading' = isLoading]_vars

\* C24: between handlers the loading flag is set exactly when a session
\* exists, that is when expected is above 0.
C24_LoadingIffSession == isLoading <=> expected > 0

\* C25: whenever the client is loading it eventually stops loading, the
\* user not pressing stop: when the terminal events have all arrived, and
\* also when the connection closes or another thread is opened first.
C25_LoadingEnds == isLoading ~> ~isLoading

\* C26: a send or a synthesis refused because the connection is not open
\* leaves no session behind: expected and finished are 0, loading is off and
\* the message list is the one before the request.
C26_RejectedLeavesNoSession ==
  [][lastOp' \in {"send_rejected", "synthesis_rejected"} =>
       /\ expected' = 0 /\ finished' = 0
       /\ ~isLoading'
       /\ messages' = messages]_vars

\* C27: the active checkpoint never names a deleted checkpoint: once a delete
\* has returned and the refresh it started has settled, the active pointer is
\* none or names a checkpoint the store still holds.
C27_ActiveNeverDeleted ==
  (/\ lastOp \in {"history", "history_failed"}
   /\ fetches = <<>> /\ calls = <<>>
   /\ threadId # NoThread)
    => activeCheckpoint = NoCp \/ Exists(threadId, activeCheckpoint)

\* C28: when a turn finalizes, no message is left streaming and the
\* pending-model set is empty, whatever the mix and order of stream_start,
\* stream_end and error events, untagged errors included.
C28_FinalizeLeavesNothingStreaming ==
  [][turnLive /\ lastOp' \in {"finalized", "finalized_idle"} =>
       /\ pendingModels' = {}
       /\ \A i \in DOMAIN messages' : ~messages'[i].streaming]_vars

\* C29: when two history requests overlap, the tree, the messages and the
\* active checkpoint end as those of the request issued last: a response that
\* arrives right after the response to a younger request changes none of them.
C29_LastRequestWins ==
  [][(/\ lastOp = "history"
      /\ lastOp' \in {"history", "history_skip"}
      /\ \E i \in DOMAIN fetches :
           /\ fetches[i].late
           /\ fetches' = RemoveAt(Overtaken(i), i))
       => UNCHANGED <<nodes, edges, messages, activeCheckpoint>>]_vars

\* C30: stop destroys the client turn session in one step: right after
\* stopStreaming loading is off, expected and finished are 0, the token
\* buffers and the pending-model set are empty and no message is streaming,
\* while each message keeps the content streamed into it so far and the
\* active checkpoint stays.
C30_StopDestroysSession ==
  [][lastOp' = "stop" =>
       /\ ~isLoading'
       /\ expected' = 0 /\ finished' = 0
       /\ streamBuffer' = <<>>
       /\ pendingModels' = {}
       /\ Len(messages') = Len(messages)
       /\ \A i \in DOMAIN messages :
            /\ ~messages'[i].streaming
            /\ messages'[i].content = messages[i].content
            /\ messages'[i].role = messages[i].role
            /\ messages'[i].model = messages[i].model
       /\ activeCheckpoint' = activeCheckpoint]_vars
C30_Witness ==
  /\ lastOp = "stop"
  /\ activeCheckpoint # NoCp
  /\ \E t \in tasks : t.turn = turn /\ t.phase = "streaming" /\ t.ntok > 0
  /\ \E i \in DOMAIN messages :
       /\ messages[i].role = "assistant"
       /\ messages[i].content # <<>>
       /\ \E t \in tasks : t.turn = turn /\ t.phase = "streaming"
                              /\ t.model = messages[i].model

====
